---- MODULE Spec2Model ----
(***************************************************************************)
(* The eth namespace of the RPC surface, src/src/eth.rs: the trait EthApi  *)
(* under #[rpc(server)].  The source fixes, for each method, its wire      *)
(* name, whether its result is handed back directly (Result<T>) or as a    *)
(* future (BoxFuture<Result<T>>), and whether its success type is          *)
(* Option<T>.  The trait has no provided method bodies: what an            *)
(* implementor returns is any value of the declared return type, and is    *)
(* modelled as a nondeterministic choice over that type.                   *)
(***************************************************************************)
EXTENDS Naturals, FiniteSets, Bags

\* Number of calls that may be suspended on their future at the same time.
MaxCalls == 2
\* Payload values carried by a success result range over 0..MaxVal.
MaxVal == 1

VARIABLES pending, last

vars == <<pending, last>>

\* The methods of trait EthApi, by their Rust names.
Methods ==
    { "protocol_version", "hashrate", "chain_id", "accounts", "balance",
      "send_transaction", "call", "syncing", "author", "is_mining",
      "gas_price", "block_number", "storage_at", "block_by_hash",
      "block_by_number", "transaction_count",
      "block_transaction_count_by_hash", "block_transaction_count_by_number",
      "block_uncles_count_by_hash", "block_uncles_count_by_number",
      "code_at", "send_raw_transaction", "estimate_gas",
      "transaction_by_hash", "transaction_by_block_hash_and_index",
      "transaction_by_block_number_and_index", "transaction_receipt",
      "uncle_by_block_hash_and_index", "uncle_by_block_number_and_index",
      "logs", "work", "submit_work", "submit_hashrate" }

\* #[rpc(name = "...")]: the JSON-RPC method name each trait method serves.
RpcName(m) ==
    CASE m = "protocol_version" -> "eth_protocolVersion"
      [] m = "hashrate" -> "eth_hashrate"
      [] m = "chain_id" -> "eth_chainId"
      [] m = "accounts" -> "eth_accounts"
      [] m = "balance" -> "eth_getBalance"
      [] m = "send_transaction" -> "eth_sendTransaction"
      [] m = "call" -> "eth_call"
      [] m = "syncing" -> "eth_syncing"
      [] m = "author" -> "eth_coinbase"
      [] m = "is_mining" -> "eth_mining"
      [] m = "gas_price" -> "eth_gasPrice"
      [] m = "block_number" -> "eth_blockNumber"
      [] m = "storage_at" -> "eth_getStorageAt"
      [] m = "block_by_hash" -> "eth_getBlockByHash"
      [] m = "block_by_number" -> "eth_getBlockByNumber"
      [] m = "transaction_count" -> "eth_getTransactionCount"
      [] m = "block_transaction_count_by_hash" -> "eth_getBlockTransactionCountByHash"
      [] m = "block_transaction_count_by_number" -> "eth_getBlockTransactionCountByNumber"
      [] m = "block_uncles_count_by_hash" -> "eth_getUncleCountByBlockHash"
      [] m = "block_uncles_count_by_number" -> "eth_getUncleCountByBlockNumber"
      [] m = "code_at" -> "eth_getCode"
      [] m = "send_raw_transaction" -> "eth_sendRawTransaction"
      [] m = "estimate_gas" -> "eth_estimateGas"
      [] m = "transaction_by_hash" -> "eth_getTransactionByHash"
      [] m = "transaction_by_block_hash_and_index" -> "eth_getTransactionByBlockHashAndIndex"
      [] m = "transaction_by_block_number_and_index" -> "eth_getTransactionByBlockNumberAndIndex"
      [] m = "transaction_receipt" -> "eth_getTransactionReceipt"
      [] m = "uncle_by_block_hash_and_index" -> "eth_getUncleByBlockHashAndIndex"
      [] m = "uncle_by_block_number_and_index" -> "eth_getUncleByBlockNumberAndIndex"
      [] m = "logs" -> "eth_getLogs"
      [] m = "work" -> "eth_getWork"
      [] m = "submit_work" -> "eth_submitWork"
      [] m = "submit_hashrate" -> "eth_submitHashrate"

\* The trait method that serves a JSON-RPC method name.
MethodOf(name) == CHOOSE m \in Methods : RpcName(m) = name

\* The methods whose declared return type is Result<T>, without BoxFuture.
ResultMethods ==
    { "hashrate", "accounts", "block_uncles_count_by_hash",
      "block_uncles_count_by_number", "uncle_by_block_hash_and_index",
      "uncle_by_block_number_and_index", "work", "submit_work",
      "submit_hashrate" }

\* BoxFuture with is_mining declared Result<bool>, handed back directly.
BoxFutureMiningDirect(m) == m \notin ResultMethods \cup {"is_mining"}

\* TRUE iff the method's declared return type is BoxFuture<Result<T>>.
BoxFuture(m) == m \notin ResultMethods

\* The methods whose declared success type is Option<T>.
OptionMethods ==
    { "chain_id", "block_by_hash", "block_by_number",
      "block_transaction_count_by_hash", "block_transaction_count_by_number",
      "transaction_by_hash", "transaction_by_block_hash_and_index",
      "transaction_by_block_number_and_index", "transaction_receipt",
      "uncle_by_block_hash_and_index", "uncle_by_block_number_and_index" }

\* Option with the two uncle counts declared Result<Option<U256>>.
OptionUncleCounts(m) ==
    m \in OptionMethods \cup {"block_uncles_count_by_hash", "block_uncles_count_by_number"}

\* TRUE iff the method's declared success type is Option<T>.
Option(m) == m \in OptionMethods

\* The values of jsonrpc_core::Result<T> and Result<Option<T>>.
Err == [kind |-> "Err", val |-> 0]
OkNone == [kind |-> "OkNone", val |-> 0]
Ok(v) == [kind |-> "Ok", val |-> v]

\* Every value of the method's declared Result type: Err(_), Ok(v) (Ok(Some(v))
\* for an optional success type), and Ok(None) only for an optional one.
Result(m) ==
    {Err} \cup {Ok(v) : v \in 0..MaxVal} \cup (IF Option(m) THEN {OkNone} ELSE {})

\* No response has been produced yet.
NoResponse == [method |-> "none", found |-> FALSE, via |-> "none", res |-> Err]

\* The methods that request an entity (an account, a block, a transaction, an
\* uncle, a log range) through an address, hash, block number or filter
\* parameter; the others take no parameter or carry their own payload.
Lookup(m) ==
    m \in { "balance", "call", "storage_at", "block_by_hash", "block_by_number",
            "transaction_count", "block_transaction_count_by_hash",
            "block_transaction_count_by_number", "block_uncles_count_by_hash",
            "block_uncles_count_by_number", "code_at", "estimate_gas",
            "transaction_by_hash", "transaction_by_block_hash_and_index",
            "transaction_by_block_number_and_index", "transaction_receipt",
            "uncle_by_block_hash_and_index", "uncle_by_block_number_and_index",
            "logs" }

\* Whether the requested entity exists at the resolved point: either way for a
\* method that requests one, nothing to miss for the others.
Found(m) == IF Lookup(m) THEN BOOLEAN ELSE {TRUE}

Init ==
    /\ pending = EmptyBag
    /\ last = NoResponse

\* A call of a Result<T> method: the method runs to its result inside the
\* call.  found: whether the requested entity exists at the resolved point.
CallResult(m) ==
    /\ ~BoxFuture(m)
    /\ \E found \in Found(m), r \in Result(m) :
          last' = [method |-> m, found |-> found, via |-> "Result", res |-> r]
    /\ UNCHANGED pending

\* A call of a BoxFuture method: what the call yields is a future, and the
\* call stays suspended until that future resolves.  MaxCalls bounds the
\* number of suspended calls in the model only.
CallBoxFuture(m) ==
    /\ BoxFuture(m)
    /\ BagCardinality(pending) < MaxCalls
    /\ pending' = pending (+) SetToBag({m})
    /\ UNCHANGED last

\* The future of a suspended call resolves to a value of its Result type.
Resolve(m) ==
    /\ BagIn(m, pending)
    /\ pending' = pending (-) SetToBag({m})
    /\ \E found \in Found(m), r \in Result(m) :
          last' = [method |-> m, found |-> found, via |-> "BoxFuture", res |-> r]

Next ==
    \/ \E m \in Methods : CallResult(m)
    \/ \E m \in Methods : CallBoxFuture(m)
    \/ \E m \in Methods : Resolve(m)

Spec == Init /\ [][Next]_vars

TypeOK ==
    /\ IsABag(pending)
    /\ BagToSet(pending) \subseteq {m \in Methods : BoxFuture(m)}
    /\ BagCardinality(pending) <= MaxCalls
    /\ last = NoResponse \/ (last.method \in Methods /\ last.res \in Result(last.method))

----------------------------------------------------------------------------
\* The block-level count methods, by wire name.
TxCountMethods ==
    { MethodOf("eth_getBlockTransactionCountByHash"),
      MethodOf("eth_getBlockTransactionCountByNumber") }

UncleCountMethods ==
    { MethodOf("eth_getUncleCountByBlockHash"),
      MethodOf("eth_getUncleCountByBlockNumber") }

\* C2 as stated: each of the four block-level count methods answers a call
\* whose containing block does not exist with absence (Ok(None): not an error,
\* not a number), and never answers absence when the block exists.
C2_Original ==
    last.method \in TxCountMethods \cup UncleCountMethods =>
        /\ ~last.found => last.res = OkNone
        /\ last.found => last.res # OkNone

\* C2 as amended: the two transaction-count methods have an optional count,
\* so absence is a success result open to them and is distinct from zero; the
\* two uncle-count methods have a non-optional count, so no call of them, for
\* a missing block or any other, is answered with absence: it is answered with
\* a number or with an error.
C2_CountAbsence ==
    /\ \A m \in BagToSet(pending) \cap TxCountMethods :
          OkNone \in Result(m) /\ Ok(0) \in Result(m) /\ OkNone # Ok(0)
    /\ last.method \in UncleCountMethods =>
          /\ last.res # OkNone
          /\ last.res \in {Err} \cup {Ok(v) : v \in 0..MaxVal}

\* An uncle count asked for a missing block was answered with the number zero
\* while a transaction count is in flight.
C2_Witness ==
    /\ last.method \in UncleCountMethods
    /\ ~last.found
    /\ last.res = Ok(0)
    /\ BagToSet(pending) \cap TxCountMethods # {}

----------------------------------------------------------------------------
\* The methods C10 names as answered from in-memory counters.
InMemoryMethods ==
    { MethodOf("eth_hashrate"), MethodOf("eth_mining"), MethodOf("eth_getWork") }

\* The methods that need a state or history lookup, pool admission or
\* sandboxed execution.
BackendMethods ==
    {m \in Methods : Lookup(m)}
        \cup {MethodOf("eth_sendTransaction"), MethodOf("eth_sendRawTransaction")}

DirectNames ==
    { "eth_hashrate", "eth_accounts", "eth_getUncleCountByBlockHash",
      "eth_getUncleCountByBlockNumber", "eth_getUncleByBlockHashAndIndex",
      "eth_getUncleByBlockNumberAndIndex", "eth_getWork", "eth_submitWork",
      "eth_submitHashrate" }

====
